---- MODULE Spec2Model ----
(***************************************************************************)
(* python/ray/autoscaler/updater.py: NodeUpdater / NodeUpdaterThread, the  *)
(* two command runners and ProviderIpGetter, as a state machine.           *)
(*                                                                         *)
(* One worker per node.  A worker's position in NodeUpdater.run is pc[n];  *)
(* every call it makes on the provider or on the command runner is one     *)
(* step and is appended to trace[n].  The provider's answers, the exit     *)
(* status of every external process and the time a sleep really takes are  *)
(* chosen by the environment at the step that asks for them.               *)
(***************************************************************************)
EXTENDS Integers, Sequences, FiniteSets, TLC

\* ----------------------------------------------------------------- bounds
MaxMounts == 2          \* file mounts of one ProvisionSpec
MaxCmds == 3            \* commands of the three command lists together
MaxShortSleeps == 1     \* sleeps that last exactly as long as asked
MaxClock == 2000        \* the clock saturates here (never reached)
MaxCalls == 2           \* direct calls one caller makes on a runner or getter

\* ------------------------------------------------------ program constants
NODE_START_WAIT_S == 300
READY_CHECK_INTERVAL == 5
SLEEP_BETWEEN_GETS == 10
EXITCODE_UNFINISHED == -1
EXITCODE_SUCCESS == 0

STATUS_WAITING_FOR_SSH == "waiting_for_ssh"
STATUS_SYNCING_FILES == "syncing_files"
STATUS_SETTING_UP == "setting_up"
STATUS_UP_TO_DATE == "up_to_date"
STATUS_UPDATE_FAILED == "update_failed"

Nodes == {1, 2}
Kinds == {"ssh", "kubernetes"}
None == "None"
\* What the provider may report as a node's address, now or later, in each
\* addressing mode.
InternalAddresses == {"10.0.0.1", "10.0.0.2"}
ExternalAddresses == {"54.0.0.1", "54.0.0.2"}
Addresses == InternalAddresses \cup ExternalAddresses
NoHash == 0             \* a tag update, or a tag store, without the runtime-config key
DesiredHashes == {1}
\* What the provider holds for a node before a run: nothing yet, or the tags
\* of an earlier run that succeeded.
StoredTags ==
    { [status |-> None, runtime_config |-> NoHash],
      [status |-> STATUS_UP_TO_DATE, runtime_config |-> 1],
      [status |-> STATUS_UP_TO_DATE, runtime_config |-> 2] }

Min(a, b) == IF a < b THEN a ELSE b

VARIABLES
    active,       \* nodes for which a NodeUpdaterThread was constructed
    cfg,          \* cfg[n]: the constructor arguments of n's updater
    tags,         \* provider: tags[n] the tag store of node n
    terminated,   \* provider: is_terminated(n)
    now,          \* time.time()
    sleeps,       \* sleeps that lasted exactly as long as asked, so far
    pc,           \* pc[n]: position of n's worker in run()
    idx,          \* pc[n]'s loop index (mount or command number)
    deadline,     \* wait_ready's deadline
    ip_deadline,  \* wait_for_ip's deadline
    ip,           \* wait_for_ip's return value
    ssh_ip,       \* SSHCommandRunner.ssh_ip
    ret,          \* the command runner call that asked for the address
    exc,          \* the exception in flight, or raised by run()
    exitcode,     \* NodeUpdaterThread.exitcode
    trace,        \* trace[n]: the provider and command runner calls n's worker made
    call,         \* call[n]: the arguments of the direct call in progress
    runs,         \* runs[n]: the updaters constructed for node n so far
    stored        \* stored[n]: node n's tag store when its updater was constructed

vars == <<active, cfg, tags, terminated, now, sleeps, pc, idx, deadline,
          ip_deadline, ip, ssh_ip, ret, exc, exitcode, trace, call, runs, stored>>

\* ---------------------------------------------------------- configuration
Configs ==
    { c \in [ kind : Kinds,
              use_internal_ip : BOOLEAN,
              remove_node_from_known_hosts_before_use : BOOLEAN,
              file_mounts : 0..MaxMounts,
              initialization_commands : 0..MaxCmds,
              setup_commands : 0..MaxCmds,
              ray_start_commands : 0..MaxCmds,
              runtime_hash : DesiredHashes ] :
        /\ c.initialization_commands + c.setup_commands + c.ray_start_commands <= MaxCmds
        \* use_internal_ip is read by the SSH runner and by the known-hosts
        \* cleanup only: elsewhere one value stands for both
        /\ (c.kind = "kubernetes" /\ ~c.remove_node_from_known_hosts_before_use)
              => ~c.use_internal_ip }

NoConfig ==
    [ kind |-> "kubernetes", use_internal_ip |-> FALSE,
      remove_node_from_known_hosts_before_use |-> FALSE,
      file_mounts |-> 0, initialization_commands |-> 0, setup_commands |-> 0,
      ray_start_commands |-> 0, runtime_hash |-> 1 ]

\* No direct call on the command runner or the address getter is in progress.
NoCall == [op |-> None]

\* The command list that position p of do_update walks.
CommandList(p, c) ==
    CASE p = "init" -> c.initialization_commands
      [] p = "setup" -> c.setup_commands
      [] p = "start" -> c.ray_start_commands
      [] OTHER -> 0

\* -------------------------------------------------------------- the trace
Ev(op, node, k, status, hash, rc) ==
    [op |-> op, node |-> node, k |-> k, status |-> status, hash |-> hash, rc |-> rc]

TagWrite(node, status, hash) == Ev("set_node_tags", node, 0, status, hash, 0)
TagRead(node, hash) == Ev("node_tags", node, 0, "", hash, 0)
Call(op, n, k, ok) == Ev(op, n, k, "", NoHash, IF ok THEN 0 ELSE 1)

Log(n, events) == trace' = [trace EXCEPT ![n] = @ \o events]

\* ------------------------------------------------------------ the provider
\* provider.set_node_tags(node_id, update): the keys of the update replace the
\* stored ones, the other keys stay.
set_node_tags(node_id, status, hash) ==
    tags' = [tags EXCEPT ![node_id] =
                [ status |-> status,
                  runtime_config |-> IF hash = NoHash THEN @.runtime_config ELSE hash ]]

\* provider.is_terminated(node_id): a terminated node stays terminated.
is_terminated(node_id) == IF terminated[node_id] THEN {TRUE} ELSE BOOLEAN

\* provider.internal_ip(node_id), provider.external_ip(node_id): an address,
\* or None.
internal_ip(node_id) == InternalAddresses \cup {None}
external_ip(node_id) == ExternalAddresses \cup {None}

\* self.node_id of worker n's updater, runner and getter: the node they were
\* constructed for.
first_node_id(n) == 1
self_node_id(n) == n

\* ProviderIpGetter.get_ip: the provider's answer in the configured mode.
get_ip_other_mode(n) ==
    IF cfg[n].use_internal_ip THEN external_ip(self_node_id(n))
                              ELSE internal_ip(self_node_id(n))
get_ip(n) ==
    IF cfg[n].use_internal_ip THEN internal_ip(self_node_id(n))
                              ELSE external_ip(self_node_id(n))

\* time.sleep(d): at least d seconds pass.
Sleep(d) ==
    \E stall \in BOOLEAN :
        /\ stall \/ sleeps < MaxShortSleeps
        /\ now' = Min(now + d + (IF stall THEN NODE_START_WAIT_S ELSE 0), MaxClock)
        /\ sleeps' = IF stall THEN sleeps ELSE sleeps + 1

\* ------------------------------------------------------------ control flow
\* do_update after the status write or command at position p: the first
\* command of the first non-empty list after p, or the end of do_update.
SetupBeforeInit(p, c) ==
    LET setups == p = "set_setting_up" /\ c.setup_commands > 0
        inits == p \in {"set_setting_up", "setup"} /\ c.initialization_commands > 0
        starts == p \in {"set_setting_up", "init", "setup", "node_tags"}
                    /\ c.ray_start_commands > 0
    IN  IF setups THEN "setup"
        ELSE IF inits THEN "init"
        ELSE IF starts THEN "start"
        ELSE "success"
InitAfterSkip(p, c) ==
    LET inits == p \in {"set_setting_up", "node_tags"} /\ c.initialization_commands > 0
        setups == p \in {"set_setting_up", "init", "node_tags"} /\ c.setup_commands > 0
        starts == p \in {"set_setting_up", "init", "setup", "node_tags"}
                    /\ c.ray_start_commands > 0
    IN  IF inits THEN "init"
        ELSE IF setups THEN "setup"
        ELSE IF starts THEN "start"
        ELSE "success"
FirstCommand(p, c) ==
    LET inits == p = "set_setting_up" /\ c.initialization_commands > 0
        setups == p \in {"set_setting_up", "init"} /\ c.setup_commands > 0
        starts == p \in {"set_setting_up", "init", "setup", "node_tags"}
                    /\ c.ray_start_commands > 0
    IN  IF inits THEN "init"
        ELSE IF setups THEN "setup"
        ELSE IF starts THEN "start"
        ELSE "success"

\* node_tags.get(TAG_RAY_RUNTIME_CONFIG) == self.runtime_hash
comparison_inverted(n) == tags[self_node_id(n)].runtime_config # cfg[n].runtime_hash
already_up_to_date(n) == tags[self_node_id(n)].runtime_config = cfg[n].runtime_hash

\* The time half of the loop condition of wait_for_ip ...
before(d) == now < d

\* ... and of wait_ready.
ready_deadline_ignored(n) == TRUE
ready_before_deadline(n) == now < deadline[n]

\* wait_ready once its loop has ended without a probe that succeeded:
\* "assert False" takes do_update to run()'s handler.
assert_skipped == "node_tags"
unable_to_connect == "except"

\* The status do_update writes at position p.
status_at(p) ==
    CASE p = "set_waiting" -> STATUS_WAITING_FOR_SSH
      [] p = "set_syncing" -> STATUS_SYNCING_FILES
      [] p = "set_setting_up" -> STATUS_SETTING_UP

\* The runner's check_call / check_output raise CalledProcessError for a
\* non-zero exit, and run() raises it again (exit_on_fail is not set).
exit_status_ignored(ok) == FALSE
CalledProcessError(ok) == ~ok

\* run(): "except Exception" catches every exception do_update can raise.
except_Exception(e) == TRUE

\* run()'s handler: hasattr(e, "cmd") and the attribute returncode it then
\* reads.  CalledProcessError has both; subprocess.TimeoutExpired has cmd,
\* timeout, output and stderr, and no returncode.
has_cmd(e) == e \in {"CalledProcessError", "TimeoutExpired"}
has_returncode(e) == e = "CalledProcessError"

\* run(): "raise e" at the end of the handler.
swallowed(e) == ""
reraise(e) == e

\* run(): the tags of the final update.
status_without_hash(n) == [status |-> STATUS_UP_TO_DATE, hash |-> NoHash]
up_to_date_tags(n) == [status |-> STATUS_UP_TO_DATE, hash |-> cfg[n].runtime_hash]

\* The update of the handler's write: the status key alone.
failed_with_hash(n) == [status |-> STATUS_UPDATE_FAILED, hash |-> cfg[n].runtime_hash]
update_failed_tags(n) == [status |-> STATUS_UPDATE_FAILED, hash |-> NoHash]

\* SSHCommandRunner.set_ssh_ip_if_required has something to do.
always_required(n) == cfg[n].kind = "ssh"
ip_required(n) == cfg[n].kind = "ssh" /\ ssh_ip[n] = None

\* The command runner calls of do_update and the direct ones.
DirectCalls == {"cmd_runner.run", "cmd_runner.run_rsync_up", "cmd_runner.run_rsync_down"}
TransportCalls == {"uptime", "mkdir", "rsync_up", "init", "setup", "start"} \cup DirectCalls

\* An exception leaves the command runner call at position p: wait_ready
\* catches it, everywhere else it reaches run()'s handler.
Raise(n, p, e) ==
    IF p = "uptime"
    THEN /\ Sleep(READY_CHECK_INTERVAL)
         /\ pc' = [pc EXCEPT ![n] = "wait_ready"]
         /\ UNCHANGED exc
    ELSE /\ pc' = [pc EXCEPT ![n] = "except"]
         /\ exc' = [exc EXCEPT ![n] = e]
         /\ UNCHANGED <<now, sleeps>>

\* ------------------------------------------------------------------- Init
Init ==
    /\ active = {1}
    /\ cfg \in [Nodes -> Configs \cup {NoConfig}]
    /\ \A n \in Nodes \ active : cfg[n] = NoConfig
    /\ \A n \in active : cfg[n] \in Configs
    /\ tags \in [Nodes -> StoredTags]
    /\ \A n \in Nodes \ active : tags[n].runtime_config = NoHash
    /\ terminated = [n \in Nodes |-> FALSE]
    /\ now = 0
    /\ sleeps = 0
    /\ pc = [n \in Nodes |-> IF n \in active THEN "constructed" ELSE "absent"]
    /\ idx = [n \in Nodes |-> 0]
    /\ deadline = [n \in Nodes |-> 0]
    /\ ip_deadline = [n \in Nodes |-> 0]
    /\ ip = [n \in Nodes |-> None]
    /\ ssh_ip = [n \in Nodes |-> None]
    /\ ret = [n \in Nodes |-> ""]
    /\ exc = [n \in Nodes |-> ""]
    /\ exitcode = [n \in Nodes |-> EXITCODE_UNFINISHED]
    /\ trace = [n \in Nodes |-> <<>>]
    /\ call = [n \in Nodes |-> NoCall]
    /\ runs = [n \in Nodes |-> IF n \in active THEN 1 ELSE 0]
    /\ stored = tags

\* ---------------------------------------------------------------- actions
\* Thread.start(): run() enters do_update, which starts the known-hosts
\* cleanup with wait_for_ip(timeout=NODE_START_WAIT_S) when it is enabled.
run(n) ==
    /\ pc[n] = "constructed"
    /\ IF cfg[n].remove_node_from_known_hosts_before_use
       THEN /\ pc' = [pc EXCEPT ![n] = "known_hosts_ip"]
            /\ ip_deadline' = [ip_deadline EXCEPT ![n] = now + NODE_START_WAIT_S]
       ELSE /\ pc' = [pc EXCEPT ![n] = "set_waiting"]
            /\ UNCHANGED ip_deadline
    /\ UNCHANGED <<runs, stored, call, active, cfg, tags, terminated, now, sleeps, idx, deadline,
                   ip, ssh_ip, ret, exc, exitcode, trace>>

\* One pass of ProviderIpGetter.wait_for_ip's loop, for the known-hosts
\* cleanup, for the SSH command runner or for a direct caller.
wait_for_ip(n) ==
    /\ pc[n] \in {"known_hosts_ip", "ssh_ip", "wait_for_ip"}
    /\ LET back == CASE pc[n] = "known_hosts_ip" -> "forget_known_host"
                     [] pc[n] = "ssh_ip" -> "set_ssh_ip"
                     [] pc[n] = "wait_for_ip" -> "returned"
           return(v) == /\ ip' = [ip EXCEPT ![n] = v]
                        /\ pc' = [pc EXCEPT ![n] = back]
                        /\ UNCHANGED <<now, sleeps>>
       IN  IF before(ip_deadline[n])
           THEN \E t \in is_terminated(self_node_id(n)) :
                  /\ terminated' = [terminated EXCEPT ![self_node_id(n)] = t]
                  /\ IF t
                     THEN return(None)
                     ELSE \E a \in get_ip(n) :
                            IF a # None
                            THEN return(a)
                            ELSE /\ Sleep(SLEEP_BETWEEN_GETS)
                                 /\ UNCHANGED <<ip, pc>>
           ELSE /\ return(None)
                /\ UNCHANGED terminated
    /\ UNCHANGED <<runs, stored, call, active, cfg, tags, idx, deadline, ip_deadline, ssh_ip, ret,
                   exc, exitcode, trace>>

\* remove_node_from_known_hosts after wait_for_ip: forget_known_host(node_ip).
\* subprocess.run raises TypeError for the argument None, FileNotFoundError
\* without ssh-keygen, subprocess.TimeoutExpired after the timeout; the
\* handlers are for TimeoutError and FileNotFoundError.
forget_known_host(n) ==
    /\ pc[n] = "forget_known_host"
    /\ \E e \in IF ip[n] = None THEN {"TypeError"}
                ELSE {"", "FileNotFoundError", "TimeoutExpired"} :
          IF e \in {"", "FileNotFoundError", "TimeoutError"}
          THEN /\ pc' = [pc EXCEPT ![n] = "set_waiting"]
               /\ UNCHANGED exc
          ELSE /\ pc' = [pc EXCEPT ![n] = "except"]
               /\ exc' = [exc EXCEPT ![n] = e]
    /\ ip' = [ip EXCEPT ![n] = None]
    /\ UNCHANGED <<runs, stored, call, active, cfg, tags, terminated, now, sleeps, idx, deadline,
                   ip_deadline, ssh_ip, ret, exitcode, trace>>

\* do_update: the waiting_for_ssh write and the deadline of wait_ready.
set_waiting_for_ssh(n) ==
    /\ pc[n] = "set_waiting"
    /\ set_node_tags(self_node_id(n), status_at("set_waiting"), NoHash)
    /\ Log(n, <<TagWrite(self_node_id(n), status_at("set_waiting"), NoHash)>>)
    /\ deadline' = [deadline EXCEPT ![n] = now + NODE_START_WAIT_S]
    /\ pc' = [pc EXCEPT ![n] = "wait_ready"]
    /\ UNCHANGED <<runs, stored, call, active, cfg, terminated, now, sleeps, idx, ip_deadline, ip,
                   ssh_ip, ret, exc, exitcode>>

\* wait_ready: the loop condition, and "assert False" once it fails.
wait_ready(n) ==
    /\ pc[n] = "wait_ready"
    /\ LET fail == /\ pc' = [pc EXCEPT ![n] = unable_to_connect]
                    /\ exc' = [exc EXCEPT ![n] =
                                 IF unable_to_connect = "except" THEN "AssertionError" ELSE @]
       IN  IF ready_before_deadline(n)
           THEN \E t \in is_terminated(self_node_id(n)) :
                  /\ terminated' = [terminated EXCEPT ![self_node_id(n)] = t]
                  /\ IF t
                     THEN fail
                     ELSE /\ pc' = [pc EXCEPT ![n] = "uptime"]
                          /\ UNCHANGED exc
           ELSE /\ fail
                /\ UNCHANGED terminated
    /\ UNCHANGED <<runs, stored, call, active, cfg, tags, now, sleeps, idx, deadline, ip_deadline,
                   ip, ssh_ip, ret, exitcode, trace>>

\* SSHCommandRunner.set_ssh_ip_if_required with no address yet: the deadline
\* of its wait_for_ip.
set_ssh_ip_if_required(n) ==
    /\ pc[n] \in TransportCalls
    /\ ip_required(n)
    /\ ip_deadline' = [ip_deadline EXCEPT ![n] = now + NODE_START_WAIT_S]
    /\ ret' = [ret EXCEPT ![n] = pc[n]]
    /\ pc' = [pc EXCEPT ![n] = "ssh_ip"]
    /\ UNCHANGED <<runs, stored, call, active, cfg, tags, terminated, now, sleeps, idx, deadline,
                   ip, ssh_ip, exc, exitcode, trace>>

\* set_ssh_ip_if_required after wait_for_ip: the assertion, then the address
\* is kept and the call goes on.
set_ssh_ip(n) ==
    /\ pc[n] = "set_ssh_ip"
    /\ IF ip[n] = None
       THEN /\ Raise(n, ret[n], "AssertionError")
            /\ UNCHANGED ssh_ip
       ELSE /\ ssh_ip' = [ssh_ip EXCEPT ![n] = ip[n]]
            /\ pc' = [pc EXCEPT ![n] = ret[n]]
            /\ UNCHANGED <<now, sleeps, exc>>
    /\ ip' = [ip EXCEPT ![n] = None]
    /\ ret' = [ret EXCEPT ![n] = ""]
    /\ UNCHANGED <<runs, stored, call, active, cfg, tags, terminated, idx, deadline, ip_deadline,
                   exitcode, trace>>

\* wait_ready's probe: cmd_runner.run("uptime", timeout=5).
uptime(n) ==
    /\ pc[n] = "uptime"
    /\ ~ip_required(n)
    /\ \E ok \in BOOLEAN :
          /\ Log(n, <<Call("uptime", n, 0, ok)>>)
          /\ IF ~CalledProcessError(ok)
             THEN /\ pc' = [pc EXCEPT ![n] = "node_tags"]
                  /\ UNCHANGED <<now, sleeps, exc>>
             ELSE Raise(n, "uptime", "CalledProcessError")
    /\ UNCHANGED <<runs, stored, call, active, cfg, tags, terminated, idx, deadline, ip_deadline,
                   ip, ssh_ip, ret, exitcode>>

\* do_update: provider.node_tags and the comparison of the fingerprints.
node_tags(n) ==
    /\ pc[n] = "node_tags"
    /\ Log(n, <<TagRead(self_node_id(n), tags[self_node_id(n)].runtime_config)>>)
    /\ IF already_up_to_date(n)
       THEN /\ pc' = [pc EXCEPT ![n] = FirstCommand("node_tags", cfg[n])]
            /\ idx' = [idx EXCEPT ![n] = 1]
       ELSE /\ pc' = [pc EXCEPT ![n] = "set_syncing"]
            /\ UNCHANGED idx
    /\ UNCHANGED <<runs, stored, call, active, cfg, tags, terminated, now, sleeps, deadline,
                   ip_deadline, ip, ssh_ip, ret, exc, exitcode>>

\* do_update: the syncing_files write; sync_file_mounts starts.
set_syncing_files(n) ==
    /\ pc[n] = "set_syncing"
    /\ set_node_tags(self_node_id(n), status_at("set_syncing"), NoHash)
    /\ Log(n, <<TagWrite(self_node_id(n), status_at("set_syncing"), NoHash)>>)
    /\ pc' = [pc EXCEPT ![n] = IF cfg[n].file_mounts > 0 THEN "mkdir" ELSE "set_setting_up"]
    /\ idx' = [idx EXCEPT ![n] = 1]
    /\ UNCHANGED <<runs, stored, call, active, cfg, terminated, now, sleeps, deadline, ip_deadline,
                   ip, ssh_ip, ret, exc, exitcode>>

\* sync_file_mounts, mount idx[n]: the assertion that the local path exists,
\* then cmd_runner.run("mkdir -p ...").
mkdir(n) ==
    /\ pc[n] = "mkdir"
    /\ ~ip_required(n)
    /\ \E exists \in BOOLEAN :
          IF ~exists
          THEN /\ pc' = [pc EXCEPT ![n] = "except"]
               /\ exc' = [exc EXCEPT ![n] = "AssertionError"]
               /\ UNCHANGED trace
          ELSE \E ok \in BOOLEAN :
                 /\ Log(n, <<Call("mkdir", n, idx[n], ok)>>)
                 /\ IF ~CalledProcessError(ok)
                    THEN /\ pc' = [pc EXCEPT ![n] = "rsync_up"]
                         /\ UNCHANGED exc
                    ELSE /\ pc' = [pc EXCEPT ![n] = "except"]
                         /\ exc' = [exc EXCEPT ![n] = "CalledProcessError"]
    /\ UNCHANGED <<runs, stored, call, active, cfg, tags, terminated, now, sleeps, idx, deadline,
                   ip_deadline, ip, ssh_ip, ret, exitcode>>

\* sync_file_mounts, mount idx[n]: sync_cmd, which is rsync_up.  The
\* Kubernetes runner falls back to "kubectl cp" when kubectl-rsync fails.
rsync_up(n) ==
    /\ pc[n] = "rsync_up"
    /\ ~ip_required(n)
    /\ \E ok \in BOOLEAN, cp \in BOOLEAN :
          LET fallback == ~ok /\ cfg[n].kind = "kubernetes"
              synced == ~CalledProcessError(IF fallback THEN cp ELSE ok)
          IN  /\ fallback \/ cp
              /\ Log(n, <<Call("rsync_up", n, idx[n], ok)>>
                        \o (IF fallback THEN <<Call("kubectl_cp", n, idx[n], cp)>> ELSE <<>>))
              /\ IF synced
                 THEN /\ pc' = [pc EXCEPT ![n] =
                                  IF idx[n] < cfg[n].file_mounts THEN "mkdir" ELSE "set_setting_up"]
                      /\ idx' = [idx EXCEPT ![n] = IF idx[n] < cfg[n].file_mounts THEN @ + 1 ELSE 1]
                      /\ UNCHANGED exc
                 ELSE /\ pc' = [pc EXCEPT ![n] = "except"]
                      /\ exc' = [exc EXCEPT ![n] = "CalledProcessError"]
                      /\ UNCHANGED idx
    /\ UNCHANGED <<runs, stored, call, active, cfg, tags, terminated, now, sleeps, deadline,
                   ip_deadline, ip, ssh_ip, ret, exitcode>>

\* do_update: the setting_up write; the command loops start.
set_setting_up(n) ==
    /\ pc[n] = "set_setting_up"
    /\ set_node_tags(self_node_id(n), status_at("set_setting_up"), NoHash)
    /\ Log(n, <<TagWrite(self_node_id(n), status_at("set_setting_up"), NoHash)>>)
    /\ pc' = [pc EXCEPT ![n] = FirstCommand("set_setting_up", cfg[n])]
    /\ idx' = [idx EXCEPT ![n] = 1]
    /\ UNCHANGED <<runs, stored, call, active, cfg, terminated, now, sleeps, deadline, ip_deadline,
                   ip, ssh_ip, ret, exc, exitcode>>

\* do_update: cmd_runner.run(cmd) for command idx[n] of the list pc[n] names.
run_command(n) ==
    /\ pc[n] \in {"init", "setup", "start"}
    /\ ~ip_required(n)
    /\ \E ok \in BOOLEAN :
          /\ Log(n, <<Call(pc[n], n, idx[n], ok)>>)
          /\ IF ~CalledProcessError(ok)
             THEN /\ pc' = [pc EXCEPT ![n] =
                              IF idx[n] < CommandList(pc[n], cfg[n]) THEN @
                              ELSE FirstCommand(pc[n], cfg[n])]
                  /\ idx' = [idx EXCEPT ![n] =
                              IF idx[n] < CommandList(pc[n], cfg[n]) THEN @ + 1 ELSE 1]
                  /\ UNCHANGED exc
             ELSE /\ pc' = [pc EXCEPT ![n] = "except"]
                  /\ exc' = [exc EXCEPT ![n] = "CalledProcessError"]
                  /\ UNCHANGED idx
    /\ UNCHANGED <<runs, stored, call, active, cfg, tags, terminated, now, sleeps, deadline,
                   ip_deadline, ip, ssh_ip, ret, exitcode>>

\* run(): the handler of "except Exception": the error string, for which an
\* exception with a cmd is asked for its returncode (AttributeError when it
\* has none, and the handler ends there); then the update_failed write, then
\* the exception is raised to the caller.
run_except(n) ==
    /\ pc[n] = "except"
    /\ IF ~except_Exception(exc[n])
       THEN UNCHANGED <<tags, trace, exc>>
       ELSE IF has_cmd(exc[n]) /\ ~has_returncode(exc[n])
       THEN /\ exc' = [exc EXCEPT ![n] = "AttributeError"]
            /\ UNCHANGED <<tags, trace>>
       ELSE /\ set_node_tags(self_node_id(n), update_failed_tags(n).status,
                          update_failed_tags(n).hash)
            /\ Log(n, <<TagWrite(self_node_id(n), update_failed_tags(n).status,
                                 update_failed_tags(n).hash)>>)
            /\ exc' = [exc EXCEPT ![n] = reraise(@)]
    /\ pc' = [pc EXCEPT ![n] = "done"]
    /\ UNCHANGED <<runs, stored, call, active, cfg, terminated, now, sleeps, idx, deadline,
                   ip_deadline, ip, ssh_ip, ret, exitcode>>

\* run(): do_update returned: status and fingerprint in one update, then
\* the exit code.
run_success(n) ==
    /\ pc[n] = "success"
    /\ set_node_tags(self_node_id(n), up_to_date_tags(n).status, up_to_date_tags(n).hash)
    /\ Log(n, <<TagWrite(self_node_id(n), up_to_date_tags(n).status, up_to_date_tags(n).hash)>>)
    /\ exitcode' = [exitcode EXCEPT ![n] = EXITCODE_SUCCESS]
    /\ pc' = [pc EXCEPT ![n] = "done"]
    /\ UNCHANGED <<runs, stored, call, active, cfg, terminated, now, sleeps, idx, deadline,
                   ip_deadline, ip, ssh_ip, ret, exc>>

Next ==
    \E n \in active :
        \/ run(n)
        \/ wait_for_ip(n)
        \/ forget_known_host(n)
        \/ set_waiting_for_ssh(n)
        \/ wait_ready(n)
        \/ set_ssh_ip_if_required(n)
        \/ set_ssh_ip(n)
        \/ uptime(n)
        \/ node_tags(n)
        \/ set_syncing_files(n)
        \/ mkdir(n)
        \/ rsync_up(n)
        \/ set_setting_up(n)
        \/ run_command(n)
        \/ run_except(n)
        \/ run_success(n)

Spec == Init /\ [][Next]_vars

\* A started worker thread keeps being scheduled until run() is over.
FairSpec == Spec /\ WF_vars(Next)

\* ---------------------------------------------------- concurrent workers
\* The fleet controller starts one NodeUpdaterThread per node; the threads
\* run concurrently against the one provider and the one clock.  Every node
\* gets one file mount and one setup command.
ConcurrentConfigs ==
    { c \in Configs :
        /\ ~c.use_internal_ip
        /\ ~c.remove_node_from_known_hosts_before_use
        /\ c.file_mounts = 1
        /\ c.initialization_commands = 0
        /\ c.setup_commands = 1
        /\ c.ray_start_commands = 0 }

\* A node has no tags yet, or those of a run that reached the desired state.
ConcurrentTags == {t \in StoredTags : t.runtime_config \in {NoHash} \cup DesiredHashes}

ConcurrentInit ==
    /\ active = Nodes
    /\ cfg \in [Nodes -> ConcurrentConfigs]
    /\ tags \in [Nodes -> ConcurrentTags]
    /\ terminated = [n \in Nodes |-> FALSE]
    /\ now = 0
    /\ sleeps = 0
    /\ pc = [n \in Nodes |-> "constructed"]
    /\ idx = [n \in Nodes |-> 0]
    /\ deadline = [n \in Nodes |-> 0]
    /\ ip_deadline = [n \in Nodes |-> 0]
    /\ ip = [n \in Nodes |-> None]
    /\ ssh_ip = [n \in Nodes |-> None]
    /\ ret = [n \in Nodes |-> ""]
    /\ exc = [n \in Nodes |-> ""]
    /\ exitcode = [n \in Nodes |-> EXITCODE_UNFINISHED]
    /\ trace = [n \in Nodes |-> <<>>]
    /\ call = [n \in Nodes |-> NoCall]
    /\ runs = [n \in Nodes |-> IF n \in active THEN 1 ELSE 0]
    /\ stored = tags

ConcurrentSpec == ConcurrentInit /\ [][Next]_vars

\* ------------------------------------------------------ one run after another
\* The fleet controller constructs a new NodeUpdaterThread for a node whose
\* last updater has finished.  Nothing but updaters writes the node's tags.
MaxRuns == 2            \* updaters constructed for one node, one after another

RerunHashes == {1, 2}

\* The constructor arguments of these updaters: at most one file mount, one
\* initialization and one setup command, and one or two start commands.
RerunConfigs ==
    [ kind : Kinds,
      use_internal_ip : {FALSE},
      remove_node_from_known_hosts_before_use : BOOLEAN,
      file_mounts : 0..1,
      initialization_commands : 0..1,
      setup_commands : 0..1,
      ray_start_commands : 1..2,
      runtime_hash : RerunHashes ]

RerunInit ==
    /\ active = {1}
    /\ cfg \in [Nodes -> RerunConfigs \cup {NoConfig}]
    /\ \A n \in Nodes \ active : cfg[n] = NoConfig
    /\ \A n \in active : cfg[n] \in RerunConfigs
    /\ tags = [n \in Nodes |-> [status |-> None, runtime_config |-> NoHash]]
    /\ terminated = [n \in Nodes |-> FALSE]
    /\ now = 0
    /\ sleeps = 0
    /\ pc = [n \in Nodes |-> IF n \in active THEN "constructed" ELSE "absent"]
    /\ idx = [n \in Nodes |-> 0]
    /\ deadline = [n \in Nodes |-> 0]
    /\ ip_deadline = [n \in Nodes |-> 0]
    /\ ip = [n \in Nodes |-> None]
    /\ ssh_ip = [n \in Nodes |-> None]
    /\ ret = [n \in Nodes |-> ""]
    /\ exc = [n \in Nodes |-> ""]
    /\ exitcode = [n \in Nodes |-> EXITCODE_UNFINISHED]
    /\ trace = [n \in Nodes |-> <<>>]
    /\ call = [n \in Nodes |-> NoCall]
    /\ runs = [n \in Nodes |-> IF n \in active THEN 1 ELSE 0]
    /\ stored = tags

\* NodeUpdaterThread(node_id, ...) for a node whose last updater is over: a
\* new updater with a new command runner (no address yet), an exit code of
\* -1 and arguments of its own; the provider and the clock are as they were.
NodeUpdaterThread(n) ==
    /\ pc[n] = "done"
    /\ runs[n] < MaxRuns
    /\ \E c \in RerunConfigs :
          /\ c.kind = cfg[n].kind
          /\ cfg' = [cfg EXCEPT ![n] = c]
    /\ runs' = [runs EXCEPT ![n] = @ + 1]
    /\ stored' = [stored EXCEPT ![n] = tags[self_node_id(n)]]
    /\ pc' = [pc EXCEPT ![n] = "constructed"]
    /\ idx' = [idx EXCEPT ![n] = 0]
    /\ deadline' = [deadline EXCEPT ![n] = 0]
    /\ ip_deadline' = [ip_deadline EXCEPT ![n] = 0]
    /\ ip' = [ip EXCEPT ![n] = None]
    /\ ssh_ip' = [ssh_ip EXCEPT ![n] = None]
    /\ ret' = [ret EXCEPT ![n] = ""]
    /\ exc' = [exc EXCEPT ![n] = ""]
    /\ exitcode' = [exitcode EXCEPT ![n] = EXITCODE_UNFINISHED]
    /\ trace' = [trace EXCEPT ![n] = <<>>]
    /\ UNCHANGED <<call, active, tags, terminated, now, sleeps>>

RerunNext ==
    \/ Next
    \/ \E n \in active : NodeUpdaterThread(n)

RerunSpec == RerunInit /\ [][RerunNext]_vars

\* ------------------------------------------- direct use of the two classes
\* The command runners and ProviderIpGetter are also called directly, by
\* callers other than NodeUpdater.run.  Such a caller makes up to MaxCalls
\* calls on one runner / one getter of a node, with arguments of its choice;
\* it is at "caller" before its first call, at "returned" or at "except"
\* (where it caught the exception) after a call, and at "exited" once the
\* process was ended.
Paths == {"~/app", "/app"}
NAMESPACE == "ray"

\* What a caller may pass as timeout and as deadline of wait_for_ip: nothing
\* (the default, None), or a number of seconds and a time.
NoArgument == -1
Timeouts == {NoArgument, 0, NODE_START_WAIT_S}
Deadlines == {NoArgument, now + NODE_START_WAIT_S}

\* An external process, as the runner started it: the program, the host or
\* pod it addresses, source and destination of a transfer, whether the
\* command line carries a command and port forwards, and the exit status.
Proc(op, n, host, src, dst, cmd, forward, rc) ==
    [op |-> op, node |-> n, host |-> host, src |-> src, dst |-> dst,
     cmd |-> cmd, forward |-> forward, rc |-> rc]
\* The caller's k-th call starts here.
Called(n, k) == [op |-> "call", node |-> n, k |-> k]

\* The ends of a transfer: a local path; pod, namespace and path.
Local(path) == [path |-> path]
Remote(n, path) == [node |-> n, namespace |-> NAMESPACE, path |-> path]

\* KubernetesCommandRunner.run_rsync_up / _down: a target that starts with
\* "~" is put under /root.
normalise(target) == IF target = "~/app" THEN "/root/app" ELSE target

\* Python's truth value of an argument: None and 0 are false.
truthy(x) == x # NoArgument /\ x # 0

\* wait_for_ip: "if timeout and deadline".
timeout_and_deadline(timeout, dl) == truthy(timeout) /\ truthy(dl)

\* KubernetesCommandRunner.run: "if cmd and port_forward".
cmd_and_port_forward(cmd, port_forward) == cmd /\ port_forward

\* KubernetesCommandRunner.run_rsync_*: "except Exception" around the
\* kubectl-rsync call leads to the kubectl cp call.
fallback_always(ok) == TRUE
rsync_failed(ok) == ~ok

CallerReady == {"caller", "returned", "except"}

CallerConfigs ==
    { c \in Configs :
        /\ ~c.remove_node_from_known_hosts_before_use
        /\ c.file_mounts = 0
        /\ c.initialization_commands + c.setup_commands + c.ray_start_commands = 0 }

CallerInit ==
    /\ active = {1}
    /\ cfg \in [Nodes -> CallerConfigs \cup {NoConfig}]
    /\ \A n \in Nodes \ active : cfg[n] = NoConfig
    /\ \A n \in active : cfg[n] \in CallerConfigs
    /\ tags = [n \in Nodes |-> [status |-> None, runtime_config |-> NoHash]]
    /\ terminated = [n \in Nodes |-> FALSE]
    /\ now = 0
    /\ sleeps = 0
    /\ pc = [n \in Nodes |-> IF n \in active THEN "caller" ELSE "absent"]
    /\ idx = [n \in Nodes |-> 0]
    /\ deadline = [n \in Nodes |-> 0]
    /\ ip_deadline = [n \in Nodes |-> 0]
    /\ ip = [n \in Nodes |-> None]
    /\ ssh_ip = [n \in Nodes |-> None]
    /\ ret = [n \in Nodes |-> ""]
    /\ exc = [n \in Nodes |-> ""]
    /\ exitcode = [n \in Nodes |-> EXITCODE_UNFINISHED]
    /\ trace = [n \in Nodes |-> <<>>]
    /\ call = [n \in Nodes |-> NoCall]
    /\ runs = [n \in Nodes |-> IF n \in active THEN 1 ELSE 0]
    /\ stored = tags

\* The caller's next call starts: its arguments are kept, the last call's
\* result is dropped.
Invoke(n, position, arguments) ==
    /\ pc[n] \in CallerReady
    /\ idx[n] < MaxCalls
    /\ call' = [call EXCEPT ![n] = arguments]
    /\ pc' = [pc EXCEPT ![n] = position]
    /\ idx' = [idx EXCEPT ![n] = @ + 1]
    /\ exc' = [exc EXCEPT ![n] = ""]
    /\ ip' = [ip EXCEPT ![n] = None]
    /\ Log(n, <<Called(n, idx[n] + 1)>>)
    /\ UNCHANGED <<runs, stored, active, cfg, tags, terminated, now, sleeps,
                   deadline, ip_deadline, ssh_ip, ret, exitcode>>

\* cmd_runner.run(cmd, exit_on_fail=..., port_forward=..., with_output=...)
call_run(n) ==
    \E cmd \in BOOLEAN, port_forward \in BOOLEAN, exit_on_fail \in BOOLEAN,
       with_output \in BOOLEAN :
        Invoke(n, "cmd_runner.run",
               [op |-> "run", cmd |-> cmd, port_forward |-> port_forward,
                exit_on_fail |-> exit_on_fail, with_output |-> with_output])

\* cmd_runner.run_rsync_up(source, target), cmd_runner.run_rsync_down(...)
call_run_rsync(n) ==
    \E op \in {"run_rsync_up", "run_rsync_down"}, source \in Paths, target \in Paths :
        Invoke(n, IF op = "run_rsync_up" THEN "cmd_runner.run_rsync_up"
                                         ELSE "cmd_runner.run_rsync_down",
               [op |-> op, source |-> source, target |-> target])

\* ProviderIpGetter(...).wait_for_ip(timeout=..., deadline=...)
call_wait_for_ip(n) ==
    \E timeout \in Timeouts, dl \in Deadlines :
        Invoke(n, "ip_getter.wait_for_ip",
               [op |-> "wait_for_ip", timeout |-> timeout, deadline |-> dl])

\* A direct call ends: it returns, or it raises e to the caller.
Return(n) ==
    /\ pc' = [pc EXCEPT ![n] = "returned"]
    /\ UNCHANGED exc
RaiseToCaller(n, e) ==
    /\ pc' = [pc EXCEPT ![n] = "except"]
    /\ exc' = [exc EXCEPT ![n] = e]

\* ProviderIpGetter.wait_for_ip up to its loop: the check of the arguments
\* and the deadline.  With neither argument the loop condition compares the
\* clock with None, a TypeError.
ProviderIpGetter_wait_for_ip(n) ==
    /\ pc[n] = "ip_getter.wait_for_ip"
    /\ LET timeout == call[n].timeout
           dl == call[n].deadline
       IN  IF timeout_and_deadline(timeout, dl)
           THEN /\ RaiseToCaller(n, "ValueError")
                /\ UNCHANGED ip_deadline
           ELSE IF truthy(timeout)
           THEN /\ ip_deadline' = [ip_deadline EXCEPT ![n] = now + timeout]
                /\ pc' = [pc EXCEPT ![n] = "wait_for_ip"]
                /\ UNCHANGED exc
           ELSE IF dl # NoArgument
           THEN /\ ip_deadline' = [ip_deadline EXCEPT ![n] = dl]
                /\ pc' = [pc EXCEPT ![n] = "wait_for_ip"]
                /\ UNCHANGED exc
           ELSE /\ RaiseToCaller(n, "TypeError")
                /\ UNCHANGED ip_deadline
    /\ UNCHANGED <<runs, stored, call, active, cfg, tags, terminated, now, sleeps, idx, deadline,
                   ip, ssh_ip, ret, exitcode, trace>>

ExitStatuses == {0, 1}

\* The runners' handlers of subprocess.CalledProcessError: what a command
\* that exits non-zero ends in.
ssh_command_failed(exit_on_fail) ==
    IF exit_on_fail THEN "ClickException" ELSE "CalledProcessError"
kubernetes_command_failed(exit_on_fail) ==
    IF exit_on_fail THEN "SystemExit" ELSE "CalledProcessError"

\* SSHCommandRunner.run once the address is set: one ssh process, with the -L
\* options of port_forward and with the command (or a sleep loop in its
\* place); check_call / check_output raise for a non-zero exit.
SSHCommandRunner_run(n) ==
    /\ pc[n] = "cmd_runner.run"
    /\ cfg[n].kind = "ssh"
    /\ ~ip_required(n)
    /\ \E rc \in ExitStatuses :
          /\ Log(n, <<Proc("ssh", n, ssh_ip[n], None, None,
                           call[n].cmd, call[n].port_forward, rc)>>)
          /\ IF rc # 0
             THEN RaiseToCaller(n, ssh_command_failed(call[n].exit_on_fail))
             ELSE Return(n)
    /\ UNCHANGED <<runs, stored, call, active, cfg, tags, terminated, now, sleeps, idx, deadline,
                   ip_deadline, ip, ssh_ip, ret, exitcode>>

\* KubernetesCommandRunner.run: the usage error; or kubectl port-forward,
\* waited for, after which building the error message fails on perr = None
\* (TypeError); or kubectl exec, where with_interactive(None) is a TypeError
\* and sys.exit(1) ends the process.
KubernetesCommandRunner_run(n) ==
    /\ pc[n] = "cmd_runner.run"
    /\ cfg[n].kind = "kubernetes"
    /\ IF cmd_and_port_forward(call[n].cmd, call[n].port_forward)
       THEN /\ RaiseToCaller(n, "Exception")
            /\ UNCHANGED trace
       ELSE IF call[n].port_forward
       THEN \E rc \in ExitStatuses :
              /\ Log(n, <<Proc("kubectl port-forward", n, None, None, None, FALSE, TRUE, rc)>>)
              /\ RaiseToCaller(n, "TypeError")
       ELSE IF ~call[n].cmd
       THEN /\ RaiseToCaller(n, "TypeError")
            /\ UNCHANGED trace
       ELSE \E rc \in ExitStatuses :
              /\ Log(n, <<Proc("kubectl exec", n, None, None, None, TRUE, FALSE, rc)>>)
              /\ IF rc = 0
                 THEN Return(n)
                 ELSE IF kubernetes_command_failed(call[n].exit_on_fail) = "SystemExit"
                 THEN /\ pc' = [pc EXCEPT ![n] = "exited"]
                      /\ exc' = [exc EXCEPT ![n] = "SystemExit"]
                 ELSE RaiseToCaller(n, kubernetes_command_failed(call[n].exit_on_fail))
    /\ UNCHANGED <<runs, stored, call, active, cfg, tags, terminated, now, sleeps, idx, deadline,
                   ip_deadline, ip, ssh_ip, ret, exitcode>>

\* SSHCommandRunner.run_rsync_up / run_rsync_down once the address is set:
\* one rsync process between the local path and user@ssh_ip:path.
SSHCommandRunner_run_rsync(n) ==
    /\ pc[n] \in {"cmd_runner.run_rsync_up", "cmd_runner.run_rsync_down"}
    /\ cfg[n].kind = "ssh"
    /\ ~ip_required(n)
    /\ LET up == call[n].op = "run_rsync_up"
           there(path) == [host |-> ssh_ip[n], path |-> path]
           src == IF up THEN Local(call[n].source) ELSE there(call[n].source)
           dst == IF up THEN there(call[n].target) ELSE Local(call[n].target)
       IN  \E rc \in ExitStatuses :
             /\ Log(n, <<Proc("rsync", n, ssh_ip[n], src, dst, FALSE, FALSE, rc)>>)
             /\ IF rc # 0 THEN RaiseToCaller(n, "CalledProcessError") ELSE Return(n)
    /\ UNCHANGED <<runs, stored, call, active, cfg, tags, terminated, now, sleeps, idx, deadline,
                   ip_deadline, ip, ssh_ip, ret, exitcode>>

\* KubernetesCommandRunner.run_rsync_*: source and destination of the
\* kubectl-rsync call ("pod@namespace:path") ...
kubectl_rsync_args(n, op, source, target) ==
    IF op = "run_rsync_up"
    THEN [src |-> Local(source), dst |-> Remote(n, normalise(target))]
    ELSE [src |-> Remote(n, source), dst |-> Local(normalise(target))]
\* ... and of the kubectl cp call ("namespace/pod:path").
kubectl_cp_args(n, op, source, target) ==
    IF op = "run_rsync_up"
    THEN [src |-> Local(source), dst |-> Remote(n, normalise(target))]
    ELSE [src |-> Remote(n, source), dst |-> Local(normalise(target))]

\* KubernetesCommandRunner.run_rsync_up / run_rsync_down: kubectl-rsync, and
\* kubectl cp when that raised.
KubernetesCommandRunner_run_rsync(n) ==
    /\ pc[n] \in {"cmd_runner.run_rsync_up", "cmd_runner.run_rsync_down"}
    /\ cfg[n].kind = "kubernetes"
    /\ LET rs == kubectl_rsync_args(n, call[n].op, call[n].source, call[n].target)
           cp == kubectl_cp_args(n, call[n].op, call[n].source, call[n].target)
       IN  \E ok \in BOOLEAN, cp_rc \in ExitStatuses :
             /\ rsync_failed(ok) \/ cp_rc = 0
             /\ Log(n, <<Proc("kubectl-rsync", n, None, rs.src, rs.dst, FALSE, FALSE,
                              IF ok THEN 0 ELSE 1)>>
                       \o (IF rsync_failed(ok)
                           THEN <<Proc("kubectl cp", n, None, cp.src, cp.dst, FALSE, FALSE, cp_rc)>>
                           ELSE <<>>))
             /\ IF rsync_failed(ok) /\ cp_rc # 0
                THEN RaiseToCaller(n, "CalledProcessError")
                ELSE Return(n)
    /\ UNCHANGED <<runs, stored, call, active, cfg, tags, terminated, now, sleeps, idx, deadline,
                   ip_deadline, ip, ssh_ip, ret, exitcode>>

CallerNext ==
    \E n \in active :
        \/ call_run(n)
        \/ call_run_rsync(n)
        \/ call_wait_for_ip(n)
        \/ ProviderIpGetter_wait_for_ip(n)
        \/ wait_for_ip(n)
        \/ set_ssh_ip_if_required(n)
        \/ set_ssh_ip(n)
        \/ SSHCommandRunner_run(n)
        \/ KubernetesCommandRunner_run(n)
        \/ SSHCommandRunner_run_rsync(n)
        \/ KubernetesCommandRunner_run_rsync(n)

CallerSpec == CallerInit /\ [][CallerNext]_vars

\* ------------------------------------------------- reading the trace back
Ops(n, S) == SelectSeq(trace[n], LAMBDA e : e.op \in S)
StatusWrites(n) == Ops(n, {"set_node_tags"})
Wrote(n, s) == \E i \in DOMAIN trace[n] :
                  trace[n][i].op = "set_node_tags" /\ trace[n][i].status = s
Completed(n) == pc[n] = "done"
Raised(n) == pc[n] = "done" /\ exc[n] # ""
Returned(n) == pc[n] = "done" /\ exc[n] = ""
TerminalStatuses == {STATUS_UP_TO_DATE, STATUS_UPDATE_FAILED}
\* The readiness wait is over and the fingerprint read found the desired one.
FastPath(n) == \E i \in DOMAIN trace[n] :
                  trace[n][i].op = "node_tags" /\ trace[n][i].hash = cfg[n].runtime_hash
\* The positions of run() up to the end of wait_ready.
UpToReady == {"constructed", "known_hosts_ip", "forget_known_host", "set_waiting",
              "wait_ready", "uptime", "ssh_ip", "set_ssh_ip"}

\* C1: once run() has completed, by returning or by raising, the last status
\* written for the node is up_to_date or update_failed, and that is what the
\* tag store holds: no intermediate status is left behind.  (Violated: a
\* known-hosts cleanup that times out makes run() raise without any status
\* write.)
C1_TerminalStatus ==
    \A n \in active :
        Completed(n) =>
            LET w == StatusWrites(n)
            IN  /\ w # <<>>
                /\ w[Len(w)].status \in TerminalStatuses
                /\ tags[n].status = w[Len(w)].status

\* C2: when the fingerprint read after the readiness wait finds the desired
\* fingerprint, the run issues no mkdir, no sync, no initialization and no
\* setup command and writes neither syncing_files nor setting_up, and it
\* runs the start commands in list order: all of them, or up to the first
\* one that fails.
C2_FastPath ==
    \A n \in active :
        FastPath(n) =>
            LET s == Ops(n, {"start"})
            IN  /\ \A i \in DOMAIN trace[n] :
                      trace[n][i].op \notin {"mkdir", "rsync_up", "kubectl_cp", "init", "setup"}
                /\ ~Wrote(n, STATUS_SYNCING_FILES)
                /\ ~Wrote(n, STATUS_SETTING_UP)
                /\ Len(s) <= cfg[n].ray_start_commands
                /\ \A j \in DOMAIN s : s[j].k = j /\ (j < Len(s) => s[j].rc = 0)
                /\ Returned(n) => Len(s) = cfg[n].ray_start_commands
                /\ Raised(n) => s # <<>> /\ s[Len(s)].rc # 0

\* C2 witness: a fast-path run with two start commands has returned.
C2_Witness ==
    \E n \in active :
        /\ FastPath(n)
        /\ Returned(n)
        /\ cfg[n].ray_start_commands >= 2
        /\ Len(Ops(n, {"start"})) >= 2

\* The commands of the three lists in the order do_update walks them.
CommandOrder(c) ==
    [j \in 1..c.initialization_commands |-> <<"init", j>>]
    \o [j \in 1..c.setup_commands |-> <<"setup", j>>]
    \o [j \in 1..c.ray_start_commands |-> <<"start", j>>]
StartOrder(c) == [j \in 1..c.ray_start_commands |-> <<"start", j>>]

\* C3: the commands a run executes are a prefix of the initialization
\* commands, then the setup commands, then the start commands, each list in
\* its order (of the start commands alone on the fast path); a command that
\* exits non-zero is the last command of the run, its error is the one run()
\* raises, and the status ends at update_failed.
C3_CommandOrder ==
    \A n \in active :
        LET s == Ops(n, {"init", "setup", "start"})
            full == IF FastPath(n) THEN StartOrder(cfg[n]) ELSE CommandOrder(cfg[n])
        IN  /\ Len(s) <= Len(full)
            /\ \A j \in DOMAIN s : <<s[j].op, s[j].k>> = full[j]
            /\ \A j \in DOMAIN s :
                  s[j].rc # 0 =>
                      /\ j = Len(s)
                      /\ pc[n] \in {"except", "done"}
                      /\ exc[n] = "CalledProcessError"
                      /\ Completed(n) =>
                            /\ tags[n].status = STATUS_UPDATE_FAILED
                            /\ trace[n][Len(trace[n])] = TagWrite(n, STATUS_UPDATE_FAILED, NoHash)

\* C3 witness: a setup command failed after an initialization command, with
\* a start command still to run, and the run has completed.
C3_Witness ==
    \E n \in active :
        LET s == Ops(n, {"init", "setup", "start"})
        IN  /\ Raised(n)
            /\ cfg[n].ray_start_commands > 0
            /\ Len(s) = 2
            /\ s[1].op = "init"
            /\ s[2].op = "setup" /\ s[2].rc # 0

\* wait_ready has ended and no probe succeeded.
NeverReady(n) ==
    /\ Wrote(n, STATUS_WAITING_FOR_SSH)
    /\ pc[n] \notin UpToReady
    /\ \A i \in DOMAIN trace[n] : trace[n][i].op = "uptime" => trace[n][i].rc # 0

\* C4: when the readiness wait ends without a probe that succeeded (the
\* deadline passed or the node was reported terminated), the run fails with
\* the assertion error, the status ends at update_failed, the stored
\* fingerprint is never read and the command runner was given nothing but
\* the probes.
C4_NeverReady ==
    \A n \in active :
        NeverReady(n) =>
            /\ pc[n] \in {"except", "done"}
            /\ exc[n] = "AssertionError"
            /\ \A i \in DOMAIN trace[n] : trace[n][i].op \in {"set_node_tags", "uptime"}
            /\ Completed(n) =>
                  /\ tags[n].status = STATUS_UPDATE_FAILED
                  /\ StatusWrites(n) = << TagWrite(n, STATUS_WAITING_FOR_SSH, NoHash),
                                          TagWrite(n, STATUS_UPDATE_FAILED, NoHash) >>

\* C4 witness: the deadline passed after a probe that failed, the node was
\* never reported terminated, and the run has completed.
C4_Witness ==
    \E n \in active :
        /\ NeverReady(n)
        /\ Completed(n)
        /\ ~terminated[n]
        /\ now >= deadline[n]
        /\ Len(Ops(n, {"uptime"})) >= 1

\* C5: a run writes up_to_date only together with the desired fingerprint,
\* in one tag update that is the last call of the run; a run that returned
\* ended with that update, and whenever the run has written up_to_date the
\* tag store holds up_to_date with the desired fingerprint.
C5_AtomicSuccess ==
    \A n \in active :
        /\ \A i \in DOMAIN trace[n] :
              (trace[n][i].op = "set_node_tags" /\ trace[n][i].status = STATUS_UP_TO_DATE) =>
                  /\ trace[n][i].hash = cfg[n].runtime_hash
                  /\ i = Len(trace[n])
                  /\ Returned(n)
        /\ Returned(n) =>
              /\ trace[n] # <<>>
              /\ trace[n][Len(trace[n])] = TagWrite(n, STATUS_UP_TO_DATE, cfg[n].runtime_hash)
        /\ Wrote(n, STATUS_UP_TO_DATE) =>
              tags[n] = [status |-> STATUS_UP_TO_DATE, runtime_config |-> cfg[n].runtime_hash]

\* C5 witness: a run that found another fingerprint stored has returned.
C5_Witness ==
    \E n \in active :
        /\ Returned(n)
        /\ ~FastPath(n)
        /\ \E i \in DOMAIN trace[n] :
              trace[n][i].op = "node_tags" /\ trace[n][i].hash \notin {NoHash, cfg[n].runtime_hash}
        /\ tags[n].runtime_config = cfg[n].runtime_hash

Rank(s) ==
    CASE s = STATUS_WAITING_FOR_SSH -> 1
      [] s = STATUS_SYNCING_FILES -> 2
      [] s = STATUS_SETTING_UP -> 3
      [] s \in TerminalStatuses -> 4

WrittenBefore(n, s, i) ==
    \E j \in 1..(i - 1) : trace[n][j] = TagWrite(n, s, NoHash)

\* C6: the statuses a run writes are strictly increasing in the order
\* waiting_for_ssh, syncing_files, setting_up, terminal (so none is written
\* twice and none after a later one); exactly one terminal status is
\* written, when the run completes, as its last write; and waiting_for_ssh is
\* written before the first probe, syncing_files before the first mkdir or
\* sync, setting_up before the first initialization or setup command.
\* (Violated: a known-hosts cleanup that times out makes run() raise without
\* the terminal write.)
C6_StatusOrder ==
    \A n \in active :
        LET w == StatusWrites(n)
        IN  /\ \A i, j \in DOMAIN w : i < j => Rank(w[i].status) < Rank(w[j].status)
            /\ \A i \in DOMAIN w :
                  w[i].status \in TerminalStatuses => i = Len(w) /\ Completed(n)
            /\ Completed(n) => w # <<>> /\ w[Len(w)].status \in TerminalStatuses
            /\ \A i \in DOMAIN trace[n] :
                  LET e == trace[n][i]
                  IN  /\ e.op = "uptime" => WrittenBefore(n, STATUS_WAITING_FOR_SSH, i)
                      /\ e.op \in {"mkdir", "rsync_up", "kubectl_cp"} =>
                            WrittenBefore(n, STATUS_SYNCING_FILES, i)
                      /\ e.op \in {"init", "setup"} =>
                            WrittenBefore(n, STATUS_SETTING_UP, i)

\* C7 as stated: a completed run wrote update_failed if and only if it
\* raised after it had written waiting_for_ssh.
C7_Original ==
    \A n \in active :
        Completed(n) =>
            (Wrote(n, STATUS_UPDATE_FAILED) <=> (exc[n] # "" /\ Wrote(n, STATUS_WAITING_FOR_SSH)))

\* C7, amended: update_failed is written only by a run that raises, as it
\* completes, and by every run that raises after it wrote waiting_for_ssh;
\* a run that raises earlier, in the known-hosts cleanup, writes
\* update_failed too, as its only status write, when no address was resolved
\* (TypeError), and writes nothing only when the cleanup call timed out (the
\* handler fails with AttributeError before the write).
C7_FailedIffRaised ==
    \A n \in active :
        /\ Wrote(n, STATUS_UPDATE_FAILED) => Raised(n)
        /\ (Raised(n) /\ Wrote(n, STATUS_WAITING_FOR_SSH)) => Wrote(n, STATUS_UPDATE_FAILED)
        /\ (Raised(n) /\ ~Wrote(n, STATUS_WAITING_FOR_SSH)) =>
              \/ exc[n] = "TypeError"
                    /\ trace[n] = << TagWrite(n, STATUS_UPDATE_FAILED, NoHash) >>
              \/ exc[n] = "AttributeError" /\ trace[n] = << >>

\* C7 witness: a run has raised out of the known-hosts cleanup and has
\* written update_failed.
C7_Witness ==
    \E n \in active :
        /\ Raised(n)
        /\ cfg[n].remove_node_from_known_hosts_before_use
        /\ ~Wrote(n, STATUS_WAITING_FOR_SSH)
        /\ exc[n] = "TypeError"
        /\ tags[n].status = STATUS_UPDATE_FAILED

\* C8 as stated: exitcode is the sentinel -1 until run() has finished; then
\* it is 0 exactly for a run that succeeded, and after a run that failed it
\* is neither 0 nor the sentinel.
C8_ExitCode ==
    \A n \in active :
        /\ ~Completed(n) => exitcode[n] = EXITCODE_UNFINISHED
        /\ Completed(n) => (exitcode[n] = EXITCODE_SUCCESS <=> exc[n] = "")
        /\ Raised(n) => exitcode[n] \notin {EXITCODE_SUCCESS, EXITCODE_UNFINISHED}

\* The positions of wait_ready, the address resolution of its probe included.
InWaitReady(n) ==
    \/ pc[n] \in {"wait_ready", "uptime"}
    \/ pc[n] \in {"ssh_ip", "set_ssh_ip"} /\ ret[n] = "uptime"

\* C9: wait_ready starts a probe only while the clock is before the
\* deadline; at or after the deadline its next step is the failure, whether
\* or not the node is terminated; and under fair scheduling wait_ready ends.
C9_ReadyWaitEnds ==
    /\ [][\A n \in Nodes :
            /\ (pc[n] = "wait_ready" /\ pc'[n] = "uptime") => now < deadline[n]
            /\ (pc[n] = "wait_ready" /\ pc'[n] # pc[n] /\ now >= deadline[n]) =>
                  (pc'[n] = "except" /\ exc'[n] = "AssertionError" /\ trace'[n] = trace[n])
         ]_vars
    /\ \A n \in Nodes : (n \in active /\ InWaitReady(n)) ~> (n \in active /\ ~InWaitReady(n))

\* C9 witness: the SSH runner never got an address, so every probe failed in
\* the address resolution; the node was never reported terminated, the
\* deadline passed and wait_ready failed.
C9_Witness ==
    \E n \in active :
        /\ cfg[n].kind = "ssh"
        /\ ssh_ip[n] = None
        /\ Wrote(n, STATUS_WAITING_FOR_SSH)
        /\ pc[n] = "except"
        /\ exc[n] = "AssertionError"
        /\ ~terminated[n]
        /\ now >= deadline[n]

\* C10: the mounts are taken in order 1, 2, ...; the sync of mount k directly
\* follows a mkdir for mount k that succeeded; the mkdir of the next mount
\* follows a sync of the mount before it that succeeded (kubectl-rsync, or
\* its kubectl cp fallback); so after a mkdir or a sync that failed no later
\* mkdir or sync is issued.
C10_MountOrder ==
    \A n \in active :
        LET s == Ops(n, {"mkdir", "rsync_up", "kubectl_cp"})
        IN  \A j \in DOMAIN s :
              /\ s[j].k \in 1..cfg[n].file_mounts
              /\ s[j].op = "mkdir" =>
                    IF j = 1 THEN s[j].k = 1
                    ELSE /\ s[j].k = s[j - 1].k + 1
                         /\ s[j - 1].op \in {"rsync_up", "kubectl_cp"}
                         /\ s[j - 1].rc = 0
              /\ s[j].op = "rsync_up" =>
                    /\ j > 1
                    /\ s[j - 1] = Call("mkdir", n, s[j].k, TRUE)
              /\ s[j].op = "kubectl_cp" =>
                    /\ j > 1
                    /\ s[j - 1] = Call("rsync_up", n, s[j].k, FALSE)
              /\ (s[j].rc # 0 /\ j < Len(s)) =>
                    s[j + 1] = Call("kubectl_cp", n, s[j].k, s[j + 1].rc = 0)

\* C10 witness: two mounts were synced in order and the sync of the second
\* one failed.
C10_Witness ==
    \E n \in active :
        LET s == Ops(n, {"mkdir", "rsync_up"})
        IN  /\ Raised(n)
            /\ Len(s) = 4
            /\ s[3] = Call("mkdir", n, 2, TRUE)
            /\ s[4] = Call("rsync_up", n, 2, FALSE)

\* sync_file_mounts failed on "assert os.path.exists(local_path)": the only
\* AssertionError after the syncing_files write (wait_ready's is raised before
\* it, and the SSH runner has its address since the probe that succeeded).
MissingSource(n) ==
    /\ pc[n] \in {"except", "done"}
    /\ exc[n] = "AssertionError"
    /\ Wrote(n, STATUS_SYNCING_FILES)

\* C11 as stated: a run that fails because the local source path of a file
\* mount does not exist has issued no mkdir and no sync, for any mount.
\* (Violated: the path of each mount is checked when the loop reaches it, so
\* the mounts before the missing one were already transferred.)
C11_NoTransferBeforeCheck ==
    \A n \in active :
        MissingSource(n) => Ops(n, {"mkdir", "rsync_up", "kubectl_cp"}) = << >>

\* C12 as stated: once the address for the known-hosts cleanup is resolved,
\* whatever happens to the ssh-keygen call (it runs, the tool is missing, the
\* call times out), the run goes on to the waiting_for_ssh write with no
\* exception in flight.  (Violated: the time-out of subprocess.run is
\* subprocess.TimeoutExpired, which "except TimeoutError" does not catch.)
C12_CleanupNonFatal ==
    [][\A n \in Nodes :
          (pc[n] = "forget_known_host" /\ ip[n] # None /\ pc'[n] # pc[n]) =>
              (pc'[n] = "set_waiting" /\ exc'[n] = "")
      ]_vars

\* ------------------------------------------------ direct calls, read back
\* A direct call has ended: it returned, it raised, or it ended the process.
Finished(n) == pc[n] \in {"returned", "except", "exited"}
\* The external processes started by the call in progress (or just ended).
Started(n) ==
    LET calls == {i \in DOMAIN trace[n] : trace[n][i].op = "call"}
        last == CHOOSE i \in calls : \A j \in calls : j <= i
    IN  IF calls = {} THEN << >> ELSE SubSeq(trace[n], last + 1, Len(trace[n]))
Processes(n) == SelectSeq(trace[n], LAMBDA e : e.op # "call")

\* C13 as stated: a wait_for_ip call that was given both a timeout and a
\* deadline raises at once, as its only step: it never reaches the loop, where
\* the provider is asked and the sleeps are.  (Violated: the check is on the
\* truth values, so timeout=0 with a deadline passes it and the loop runs up
\* to the deadline.)
C13_BothRejected ==
    [][\A n \in Nodes :
          (/\ pc[n] = "ip_getter.wait_for_ip"
           /\ call[n].timeout # NoArgument
           /\ call[n].deadline # NoArgument
           /\ pc'[n] # pc[n]) =>
              /\ pc'[n] = "except"
              /\ exc'[n] = "ValueError"
              /\ UNCHANGED <<terminated, now, sleeps, ip>>
      ]_vars

\* The addresses of the addressing mode of n's getter.
ModeAddresses(n) == IF cfg[n].use_internal_ip THEN InternalAddresses ELSE ExternalAddresses

\* C14: the loop of wait_for_ip ends in one of two ways: with an address of
\* the configured mode, at a pass made before the deadline that found the node
\* not terminated, or with None, at a pass made at or after the deadline or
\* one that found the node terminated; a pass at which the provider has no
\* address does not end the loop.
C14_AddressOrNothing ==
    [][\A n \in Nodes :
          (pc[n] \in {"known_hosts_ip", "ssh_ip", "wait_for_ip"} /\ pc'[n] # pc[n]) =>
              \/ /\ ip'[n] \in ModeAddresses(n)
                 /\ now < ip_deadline[n]
                 /\ ~terminated'[n]
              \/ /\ ip'[n] = None
                 /\ now >= ip_deadline[n] \/ terminated'[n]
      ]_vars

\* C14 witness: the second direct call of wait_for_ip has returned nothing,
\* at its deadline, for a node that is not terminated.
C14_Witness ==
    \E n \in active :
        /\ pc[n] = "returned"
        /\ call[n].op = "wait_for_ip"
        /\ idx[n] = 2
        /\ ip[n] = None
        /\ ~terminated[n]
        /\ now >= ip_deadline[n]

\* C15 as stated: a run call given both a command and a port-forward spec
\* raises and starts no process.  (Violated: SSHCommandRunner.run has no such
\* check; it starts one ssh process that forwards the ports and runs the
\* command.)
C15_CommandOrForward ==
    \A n \in active :
        (Finished(n) /\ call[n].op = "run" /\ call[n].cmd /\ call[n].port_forward) =>
            /\ pc[n] = "except"
            /\ Started(n) = << >>

\* C16 as stated: a run call given a port-forward spec and no command never
\* returns: once the forwarding process has exited, whatever its exit status,
\* the call raises.  (Violated: SSHCommandRunner.run returns when its ssh
\* process exits with status 0.)
C16_ForwardAlwaysRaises ==
    \A n \in active :
        (Finished(n) /\ call[n].op = "run" /\ call[n].port_forward /\ ~call[n].cmd) =>
            pc[n] = "except"

\* C17 as stated: when the command of a run call exits non-zero, the process
\* is ended if exit_on_fail is set, and otherwise CalledProcessError reaches
\* the caller.  (Violated: with exit_on_fail SSHCommandRunner.run raises
\* click.ClickException to its caller.)
C17_NonZeroExit ==
    \A n \in active :
        (/\ Finished(n)
         /\ call[n].op = "run" /\ call[n].cmd /\ ~call[n].port_forward
         /\ Started(n) # << >>
         /\ Started(n)[1].rc # 0) =>
            IF call[n].exit_on_fail
            THEN pc[n] = "exited"
            ELSE pc[n] = "except" /\ exc[n] = "CalledProcessError"

\* C18: a Kubernetes run_rsync_up / run_rsync_down call starts kubectl-rsync;
\* when that succeeds it starts nothing else and returns; when that fails it
\* starts exactly one kubectl cp with the same source and destination, and
\* returns if and only if the kubectl cp succeeds.
C18_Fallback ==
    \A n \in active :
        (/\ Finished(n)
         /\ call[n].op \in {"run_rsync_up", "run_rsync_down"}
         /\ cfg[n].kind = "kubernetes") =>
            LET s == Started(n)
            IN  /\ Len(s) \in {1, 2}
                /\ s[1].op = "kubectl-rsync"
                /\ s[1].node = n
                /\ s[1].rc = 0 => Len(s) = 1 /\ pc[n] = "returned"
                /\ s[1].rc # 0 =>
                      /\ Len(s) = 2
                      /\ s[2].op = "kubectl cp"
                      /\ s[2].node = s[1].node
                      /\ s[2].src = s[1].src
                      /\ s[2].dst = s[1].dst
                      /\ pc[n] = "returned" <=> s[2].rc = 0
                      /\ pc[n] = "except" <=> s[2].rc # 0

\* C18 witness: a run_rsync_down to a "~" target fell back to kubectl cp,
\* which succeeded, and the call returned.
C18_Witness ==
    \E n \in active :
        /\ pc[n] = "returned"
        /\ call[n].op = "run_rsync_down"
        /\ call[n].target = "~/app"
        /\ cfg[n].kind = "kubernetes"
        /\ Len(Started(n)) = 2
        /\ Started(n)[2].rc = 0

\* C20: the SSH runner has no address until its first use; it asks for one
\* only while it has none; once it has one, the address never changes; and
\* every ssh and rsync process it starts addresses the one it has, so all of
\* them address the same one.
C20_AddressCached ==
    /\ [][\A n \in Nodes : ssh_ip[n] # None => ssh_ip'[n] = ssh_ip[n]]_vars
    /\ [](\A n \in active :
            /\ idx[n] = 0 => ssh_ip[n] = None
            /\ pc[n] \in {"ssh_ip", "set_ssh_ip"} => ssh_ip[n] = None
            /\ \A i \in DOMAIN trace[n] :
                  trace[n][i].op \in {"ssh", "rsync"} =>
                      /\ trace[n][i].host # None
                      /\ trace[n][i].host = ssh_ip[n]
                      /\ trace[n][i].host \in ModeAddresses(n))

\* C20 witness: two calls on one SSH runner have each started a process.
C20_Witness ==
    \E n \in active :
        /\ cfg[n].kind = "ssh"
        /\ Finished(n)
        /\ Len(Processes(n)) = 2
        /\ Processes(n)[1].op = "ssh"
        /\ Processes(n)[2].op = "rsync"

\* What belongs to node n and its worker: the worker's position and fields,
\* its calls, and the provider's tags and termination state of the node.
Private(n) ==
    <<pc[n], idx[n], deadline[n], ip_deadline[n], ip[n], ssh_ip[n], ret[n], exc[n],
      exitcode[n], trace[n], call[n], tags[n], terminated[n]>>

Statuses(n) == [i \in DOMAIN StatusWrites(n) |-> StatusWrites(n)[i].status]

\* The status sequences a run of n's updater writes when it is the only one:
\* those of a run under way, and those of a completed run, given what its
\* fingerprint read returned.
SoloUnderWay ==
    { << >>,
      <<STATUS_WAITING_FOR_SSH>>,
      <<STATUS_WAITING_FOR_SSH, STATUS_SYNCING_FILES>>,
      <<STATUS_WAITING_FOR_SSH, STATUS_SYNCING_FILES, STATUS_SETTING_UP>> }
SoloCompleted(n) ==
    {<<STATUS_WAITING_FOR_SSH, STATUS_UPDATE_FAILED>>}
    \cup (IF FastPath(n)
          THEN {<<STATUS_WAITING_FOR_SSH, STATUS_UP_TO_DATE>>}
          ELSE {<<STATUS_WAITING_FOR_SSH, STATUS_SYNCING_FILES, STATUS_UPDATE_FAILED>>,
                <<STATUS_WAITING_FOR_SSH, STATUS_SYNCING_FILES, STATUS_SETTING_UP,
                  STATUS_UPDATE_FAILED>>,
                <<STATUS_WAITING_FOR_SSH, STATUS_SYNCING_FILES, STATUS_SETTING_UP,
                  STATUS_UP_TO_DATE>>})
    \cup (IF cfg[n].remove_node_from_known_hosts_before_use
          THEN {<< >>, <<STATUS_UPDATE_FAILED>>}
          ELSE {})

\* C19: with a worker per node running concurrently, every step changes what
\* belongs to one node only; a node's tags change only by a write its own
\* worker made and logged; every provider and runner call of a worker names
\* its own node, and the fingerprint it read is its own node's; the statuses
\* written for a node are a sequence a lone run writes, the stored status is
\* the last of them, and the commands, syncs and outcome of each run are as
\* for a lone run (the properties of C2, C3, C4, C5, C7 and C10, per node).
C19_Isolation ==
    /\ [][/\ \A m, n \in Nodes :
                m # n => (Private(m)' = Private(m) \/ Private(n)' = Private(n))
          /\ \A n \in Nodes :
                tags'[n] # tags[n] =>
                    /\ Len(trace'[n]) = Len(trace[n]) + 1
                    /\ LET e == trace'[n][Len(trace'[n])]
                       IN  /\ e.op = "set_node_tags"
                           /\ e.node = n
                           /\ tags'[n].status = e.status
                           /\ tags'[n].runtime_config =
                                 IF e.hash = NoHash THEN tags[n].runtime_config ELSE e.hash
         ]_vars
    /\ [](\A n \in active :
            /\ \A i \in DOMAIN trace[n] :
                  /\ trace[n][i].node = n
                  /\ (trace[n][i].op = "node_tags" /\ ~Wrote(n, STATUS_UP_TO_DATE)) =>
                        trace[n][i].hash = tags[n].runtime_config
            /\ Statuses(n) \in (IF Completed(n) THEN SoloCompleted(n) ELSE SoloUnderWay)
            /\ Statuses(n) # << >> => tags[n].status = Statuses(n)[Len(Statuses(n))])
    /\ [](C2_FastPath /\ C3_CommandOrder /\ C4_NeverReady /\ C5_AtomicSuccess
            /\ C7_FailedIffRaised /\ C10_MountOrder)

\* C19 witness: the worker of node 1 has returned, with its node up_to_date,
\* while the worker of node 2, on the other transport, is at its setup
\* command, with another fingerprint stored than node 1 has.
C19_Witness ==
    /\ active = Nodes
    /\ Returned(1)
    /\ tags[1].status = STATUS_UP_TO_DATE
    /\ cfg[1].kind # cfg[2].kind
    /\ pc[2] = "setup"
    /\ tags[2].status = STATUS_SETTING_UP
    /\ tags[2].runtime_config # tags[1].runtime_config

\* ------------------------------------------------------------------- C21
\* The statuses of the writes that come before the end of a successful run.
StatusOnly == {STATUS_WAITING_FOR_SSH, STATUS_SYNCING_FILES, STATUS_SETTING_UP,
               STATUS_UPDATE_FAILED}

\* C21: during a run the stored fingerprint of the node changes only in the
\* step of the final success update; the waiting_for_ssh, syncing_files,
\* setting_up and update_failed writes carry the status key alone; so as
\* long as no up_to_date write was made, and in particular after a run that
\* raised, the stored fingerprint is the one stored before the run.
C21_FingerprintFrame ==
    /\ [][ \A n \in active :
              tags'[n].runtime_config # tags[n].runtime_config
                => /\ pc[n] = "success"
                   /\ pc'[n] = "done"
                   /\ exc'[n] = ""
                   /\ tags'[n] = [status |-> STATUS_UP_TO_DATE,
                                  runtime_config |-> cfg[n].runtime_hash] ]_vars
    /\ [](\A n \in active :
            /\ \A i \in DOMAIN StatusWrites(n) :
                  StatusWrites(n)[i].status \in StatusOnly
                    => StatusWrites(n)[i].hash = NoHash
            /\ ~Wrote(n, STATUS_UP_TO_DATE)
                  => tags[n].runtime_config = stored[n].runtime_config
            /\ Raised(n) => tags[n].runtime_config = stored[n].runtime_config)

\* C21 witness: a run that found another fingerprint than the desired one
\* stored made all four status-only writes and raised, and that fingerprint
\* is still stored.
C21_Witness ==
    \E n \in active :
        /\ Raised(n)
        /\ stored[n].runtime_config \notin {NoHash, cfg[n].runtime_hash}
        /\ \A s \in StatusOnly : Wrote(n, s)
        /\ tags[n].status = STATUS_UPDATE_FAILED
        /\ tags[n].runtime_config = stored[n].runtime_config

\* ------------------------------------------------------------------- C22
\* The node's last updater left status up_to_date and the fingerprint that
\* this updater, a later one for the same node, was given as the desired one.
Reconverging(n) ==
    /\ runs[n] > 1
    /\ stored[n] = [status |-> STATUS_UP_TO_DATE, runtime_config |-> cfg[n].runtime_hash]

\* The readiness wait of the run ended with a probe that succeeded.
Reachable(n) == \E i \in DOMAIN trace[n] :
                   trace[n][i].op = "uptime" /\ trace[n][i].rc = 0

StartsSucceed(n) == \A i \in DOMAIN trace[n] :
                       trace[n][i].op = "start" => trace[n][i].rc = 0

\* C22: a run for a node whose last run ended with status up_to_date and
\* fingerprint H, started with desired fingerprint H, issues no mkdir, no
\* sync and no initialization or setup command and writes neither
\* syncing_files nor setting_up: its command runner calls are readiness
\* probes and start commands only, and the stored fingerprint stays H.  Once
\* it is over, with the node reached and no start command failed, it has
\* returned, every start command ran once and in order, and the tags are
\* up_to_date and H again.
C22_Idempotent ==
    \A n \in active :
        Reconverging(n) =>
            /\ \A i \in DOMAIN trace[n] :
                  trace[n][i].op \in {"set_node_tags", "node_tags", "uptime", "start"}
            /\ ~Wrote(n, STATUS_SYNCING_FILES)
            /\ ~Wrote(n, STATUS_SETTING_UP)
            /\ tags[n].runtime_config = cfg[n].runtime_hash
            /\ (Completed(n) /\ Reachable(n) /\ StartsSucceed(n))
                  => /\ Returned(n)
                     /\ exitcode[n] = EXITCODE_SUCCESS
                     /\ [i \in DOMAIN Ops(n, {"start"}) |-> Ops(n, {"start"})[i].k]
                          = [j \in 1..cfg[n].ray_start_commands |-> j]
                     /\ tags[n] = [status |-> STATUS_UP_TO_DATE,
                                   runtime_config |-> cfg[n].runtime_hash]

\* C22 witness: the second run for a node, given the fingerprint the first
\* run stored and a file mount, an initialization, a setup and a start
\* command, has returned after a probe and the start command.
C22_Witness ==
    \E n \in active :
        /\ Reconverging(n)
        /\ Returned(n)
        /\ cfg[n].file_mounts > 0
        /\ cfg[n].initialization_commands > 0
        /\ cfg[n].setup_commands > 0
        /\ cfg[n].ray_start_commands > 0
        /\ Len(Ops(n, {"uptime"})) > 0
        /\ Len(Ops(n, {"start"})) = cfg[n].ray_start_commands
        /\ tags[n].status = STATUS_UP_TO_DATE

====
